---- MODULE Spec2Model ----
(***************************************************************************)
(* Media controller of the launcher extension: the thumbnail cache of      *)
(* AudioController (lookup, eviction, synchronous and background           *)
(* downloads) and the interaction handler (next / previous / repeat with   *)
(* their bounded polling waiters).                                         *)
(***************************************************************************)
EXTENDS Integers, Sequences, FiniteSets, TLC

(* ----------------------------- bounds ---------------------------------- *)
\* lookups that get past the first exists() check in one behaviour
MaxMisses == 2

\* titles the player may report to the interaction handler
NumTracks == 2
\* largest track position the player may report
MaxPosition == 1
\* tenths of a second the clock may run past the waiter's deadline
MaxOverrun == 1

\* players known to playerctl
NumPlayers == 2
\* characters in the volume component of a SET_VOL query
MaxComponentLen == 3
\* how far below 0 and above 100 global_volume is applied directly
MaxExcess == 2

(* ------------------------ program constants ---------------------------- *)
\* audio_controller.py:100  min(set_vol, 100)
MAX_VOLUME == 100
\* iteraction_listener.py:22  MAX_WAIT, in seconds
MAX_WAIT == 3
\* iteraction_listener.py:56  time.sleep(0.1): the clock counts tenths of a second
TICKS_PER_SECOND == 10
\* iteraction_listener.py:56  time.sleep(0.1), in tenths of a second
SLEEP_TICKS == 1
\* audio_controller.py:248  len(old_thumbnails) > 50
EVICT_THRESHOLD == 50
\* audio_controller.py:250  old_thumbnails[:35]
EVICT_COUNT == 35
\* audio_controller.py:260  fast synchronous fetch, timeout in tenths of a second
SYNC_TIMEOUT == 3
\* audio_controller.py:260  fast synchronous fetch, tries
SYNC_TRIES == 1
\* audio_controller.py:266  background fetch, timeout in tenths of a second
BG_TIMEOUT == 20
\* audio_controller.py:266  background fetch, tries
BG_TRIES == 3

VARIABLES
    dir,          \* cache directory: its files [name, ino, valid] in the order of
                  \* their creation times, oldest first
    mainPc,       \* position of the interactive thread inside get_media_thumbnail
    media,        \* the CurrentMedia argument of the lookup in progress
    localKind,    \* where local_filename points: "cache" or "local" (line 257)
    listing,      \* old_thumbnails, the result of glob (line 247)
    victims,      \* old_thumbnails[:35] after the sort (lines 249-250)
    sync,         \* the synchronous __download_thumbnail call of this lookup
    bg,           \* background threads, one slot per lookup that missed
    misses,       \* lookups that missed so far
    ret,          \* what the last get_media_thumbnail call returned (or that it raised)
    deleted,      \* history: files os.remove'd by the eviction of this lookup
    ctimes,       \* history: creation rank of each listed file when it was sorted
    started,      \* history: the threads this lookup started, as [name, timeout, tries]
    lateInserts   \* history: files created by threads in flight at a later '> 50' check

cacheVars == <<dir, mainPc, media, localKind, listing, victims, sync, bg,
               misses, ret, deleted, ctimes, started, lateInserts>>

VARIABLES
    hPc,            \* position of the interaction handler inside on_event
    action,         \* data["action"] of the event being handled
    repeat_state,   \* player_status.repeat_state as queried on entry (line 93)
    has_previous,   \* previous_media is not None (lines 98-101)
    previous_media, \* the media before the action
    now,            \* time.time(), in tenths of a second
    start_time,     \* lines 95, 157
    wake,           \* when the sleep of line 56 / 73 is over
    current,        \* what the last poll of the media waiter returned
    new_status,     \* what the last poll of the repeat waiter returned
    leftBy,         \* history: how the waiter was left: "none", "break", "timeout"
    commands,       \* history: the commands sent to the player by this interaction
    toolFailed,     \* history: where the player tool exited non-zero: "none",
                    \* "prequery", "command", "poll", "render"
    result          \* what on_event returned, or that an exception left it

handlerVars == <<hPc, action, repeat_state, has_previous, previous_media, now, start_time,
                 wake, current, new_status, leftBy, commands, toolFailed, result>>

VARIABLES
    registered,     \* the players playerctl -l lists
    playback,       \* the playback state of every player
    target,         \* data["player"] of a SELECT_PLAYER event
    shown           \* the items the launcher shows after render_players

playerVars == <<registered, playback, target, shown>>

VARIABLES
    is_muted,       \* extension.mute_state.is_muted
    sink_muted,     \* the mute flag of the default sink of the mixer
    vol_int,        \* the volume SET_VOL parsed from its query (line 143)
    flag_before,    \* history: is_muted when the MUTE or SET_VOL branch was entered
    sink_before,    \* history: sink_muted at that time
    mixer_ok        \* history: no pactl call has exited non-zero so far

mixerVars == <<is_muted, sink_muted, vol_int, flag_before, sink_before, mixer_ok>>

VARIABLES
    fn,             \* the function applied last, "none" before the first
    input,          \* what it was applied to
    output          \* what it returned

pureVars == <<fn, input, output>>

\* what the NEXT, PREV and REPEAT branches of on_event leave alone
outsideVars == <<cacheVars, playerVars, mixerVars, pureVars>>

\* what get_media_thumbnail and its download threads leave alone
nonCacheVars == <<handlerVars, playerVars, mixerVars, pureVars>>

vars == <<cacheVars, handlerVars, playerVars, mixerVars, pureVars>>

(* ------------------------------ inputs --------------------------------- *)
\* a lookup asks for a title that was asked for before or for the next new one
\* (new titles are numbered in the order of their first lookup, which misses);
\* the artist is the same throughout
Titles == 1..MaxMisses
\* mpris:artUrl of the media: a local file that is an image, a local file that
\* is not (or is missing), a remote reference, anything else
UrlKinds == {"file_ok", "file_bad", "http", "other"}
Medias == [title : Titles, artist : {1}, thumbnail_path : UrlKinds]

\* cache contents the directory may start with: empty, and just around the
\* eviction threshold (older entries of media that are no longer looked up)
FillChoices == {0, EVICT_THRESHOLD}

Slots == 1..MaxMisses

(* --------------------------- file system ------------------------------- *)
\* line 232-238: the cache file of a media is named after (title, artist)
FileName(m) == <<m.title, m.artist>>
\* names of the older entries
OldName(i) == <<0, i>>

Names(d) == {d[i].name : i \in DOMAIN d}

Exists(d, name) == name \in Names(d)

\* os.path.getctime, as the rank of the file among the files of the directory
Ctime(d, name) == CHOOSE i \in DOMAIN d : d[i].name = name

File(d, name) == d[Ctime(d, name)]

Remove(d, name) ==
    LET Other(f) == f.name # name
    IN  SelectSeq(d, Other)

\* a write to the file makes it the newest
Touch(d, f) == Append(Remove(d, f.name), f)

\* wget -O name: the output file is created, or truncated if it exists (an
\* existing file keeps its inode); until wget is done the file is no image
WgetOpen(d, name, id) ==
    IF Exists(d, name)
    THEN Touch(d, [name |-> name, ino |-> File(d, name).ino, valid |-> FALSE])
    ELSE Append(d, [name |-> name, ino |-> id, valid |-> FALSE])

\* wget exits 0: what it wrote is an image (isImage) or not (an error page, an
\* empty reply, the bytes of two wgets writing one inode); the writes went to
\* the inode it opened, which may no longer be the file at name
WgetDone(d, name, ino, isImage) ==
    IF Exists(d, name) /\ File(d, name).ino = ino
    THEN Touch(d, [name |-> name, ino |-> ino, valid |-> isImage])
    ELSE d

\* lines 276-300: validate_image on a path of the cache directory
validate_image(d, name) == Exists(d, name) /\ File(d, name).valid

\* validate_image on the path a file:// reference names
validate_local(url) == url = "file_ok"

(* ------------------------ __download_thumbnail ------------------------- *)
\* An attempt is [pc, id, name, ino, timeout, tries, late]; id numbers the
\* attempts, ino is the inode its wget opened:
\*   "none"      no call
\*   "spawned"   the call (thread) is started, wget has not opened the file yet
\*   "running"   wget has the output file open and writes to it
\*   "removing"  local_filename.exists() was True (334), os.remove is next (335)
\*   "true" / "false"  the call returned True (332) / False (337)
\*   "raised"    os.remove raised FileNotFoundError out of the handler (335)
NoAttempt ==
    [pc |-> "none", id |-> 0, name |-> <<0, 0>>, ino |-> 0, timeout |-> 0,
     tries |-> 0, late |-> FALSE]

NewAttempt(id, name, timeout, tries) ==
    [pc |-> "spawned", id |-> id, name |-> name, ino |-> 0, timeout |-> timeout,
     tries |-> tries, late |-> FALSE]

\* the synchronous attempt of the k-th miss, and the thread it may start
SyncId(k) == 2 * k - 1
ThreadId(k) == 2 * k

InFlight(a) == a.pc \in {"spawned", "running", "removing"}

\* lines 317-329: wget starts and opens its output file
DlOpen(a, d) ==
    [a EXCEPT !.pc = "running",
              !.ino = IF Exists(d, a.name) THEN File(d, a.name).ino ELSE a.id]

\* lines 330-332: wget exited 0
DlSucceed(a) == [a EXCEPT !.pc = "true"]

\* lines 333-334: wget exited non-zero, check=True raised CalledProcessError;
\* the handler asks local_filename.exists()
DlFail(a, d) == [a EXCEPT !.pc = IF Exists(d, a.name) THEN "removing" ELSE "false"]

\* line 335: os.remove(local_filename); raises if the file is gone by now
DlRemovePc(a, d) == [a EXCEPT !.pc = IF Exists(d, a.name) THEN "false" ELSE "raised"]

\* mutant of DlRemoveDir: the handler without its os.remove
DlRemoveDir_keep(a, d) == d

DlRemoveDir(a, d) == IF Exists(d, a.name) THEN Remove(d, a.name) ELSE d

(* ------------------------- get_media_thumbnail ------------------------- *)
\* Positions of the interactive thread (mainPc):
\*   "idle"     no lookup in progress       "hit"     line 242
\*   "glob"     line 247                    "sort"    line 249
\*   "remove"   lines 250-251               "exists2" line 253
\*   "sync"     lines 259-261               "spawn"   lines 263-268
\*   "final"    lines 270-274
default_thumbnail == [kind |-> "default"]

Returned(kind) == [kind |-> kind]

NoMedia == [title |-> 1, artist |-> 1, thumbnail_path |-> "other"]

\* the call ends (it returns r, or raises): its locals are gone
Leave(r) ==
    /\ ret' = r
    /\ mainPc' = "idle"
    /\ media' = NoMedia
    /\ localKind' = "cache"
    /\ listing' = {}
    /\ victims' = <<>>
    /\ deleted' = {}
    /\ ctimes' = <<>>
    /\ started' = <<>>
    /\ sync' = NoAttempt

\* line 249: the names sorted by creation time, oldest first
SortByCtime(d, names) ==
    LET Listed(f) == f.name \in names
        files == SelectSeq(d, Listed)
    IN  [i \in DOMAIN files |-> files[i].name]

\* mutant of Oldest: the slice taken from the other end, old_thumbnails[-35:]
Oldest_newest(sorted) ==
    SubSeq(sorted,
           IF Len(sorted) < EVICT_COUNT THEN 1 ELSE Len(sorted) - EVICT_COUNT + 1,
           Len(sorted))

\* line 250: old_thumbnails[:35]
Oldest(sorted) ==
    SubSeq(sorted, 1, IF Len(sorted) < EVICT_COUNT THEN Len(sorted) ELSE EVICT_COUNT)

Range(f) == {f[i] : i \in DOMAIN f}

\* lines 225-240: a lookup starts; the first exists() check decides hit or miss
Lookup(m) ==
    /\ mainPc = "idle"
    /\ m.title <= misses + 1
    /\ Exists(dir, FileName(m)) \/ misses < MaxMisses
    /\ media' = m
    /\ localKind' = "cache"
    /\ sync' = NoAttempt
    /\ listing' = {}
    /\ victims' = <<>>
    /\ deleted' = {}
    /\ ctimes' = <<>>
    /\ started' = <<>>
    /\ ret' = Returned("none")
    /\ IF Exists(dir, FileName(m))
       THEN mainPc' = "hit" /\ misses' = misses
       ELSE mainPc' = "glob" /\ misses' = misses + 1
    /\ UNCHANGED nonCacheVars
    /\ UNCHANGED <<dir, bg, lateInserts>>

\* lines 242-245: the file exists; return it only if it validates
\* mutant of HitResult: the existing file returned without validation
HitResult_unvalidated(d, m) == Returned("cache")

HitResult(d, m) ==
    IF validate_image(d, FileName(m)) THEN Returned("cache") ELSE default_thumbnail

Hit ==
    /\ mainPc = "hit"
    /\ Leave(HitResult(dir, media))
    /\ UNCHANGED nonCacheVars
    /\ UNCHANGED <<dir, bg, misses, lateInserts>>

\* a thread whose target returned True, or raised, is gone at once; one whose
\* target returned False is kept one step longer, then it is gone
Ended(a) == IF a.pc \in {"true", "raised"} THEN NoAttempt ELSE a

BgExit(s) ==
    /\ bg[s].pc = "false"
    /\ bg' = [bg EXCEPT ![s] = NoAttempt]
    /\ UNCHANGED nonCacheVars
    /\ UNCHANGED <<dir, mainPc, media, localKind, listing, victims, sync, misses, ret,
                   deleted, ctimes, started, lateInserts>>

\* lines 247-248: glob the directory and compare its length with 50; the
\* threads in flight now insert later than this check
\* mutant of NeedsEviction: the comparison off by one
NeedsEviction_offByOne(names) == Cardinality(names) > EVICT_THRESHOLD + 1

NeedsEviction(names) == Cardinality(names) > EVICT_THRESHOLD

Glob ==
    /\ mainPc = "glob"
    /\ listing' = Names(dir)
    /\ mainPc' = IF NeedsEviction(Names(dir)) THEN "sort" ELSE "exists2"
    /\ bg' = [s \in Slots |->
                IF bg[s].pc = "spawned" THEN [bg[s] EXCEPT !.late = TRUE] ELSE bg[s]]
    /\ UNCHANGED nonCacheVars
    /\ UNCHANGED <<dir, media, localKind, victims, sync, misses, ret, deleted, ctimes, started,
                   lateInserts>>

\* line 249: sort(key=os.path.getctime) stats every listed file, and raises
\* FileNotFoundError if one of them is gone; line 250 takes the first 35
Sort ==
    /\ mainPc = "sort"
    /\ IF listing \subseteq Names(dir)
       THEN /\ victims' = Oldest(SortByCtime(dir, listing))
            /\ ctimes' = [n \in listing |-> Ctime(dir, n)]
            /\ mainPc' = "remove"
            /\ UNCHANGED <<media, localKind, listing, sync, ret, deleted, started>>
       ELSE Leave(Returned("raised"))
    /\ UNCHANGED nonCacheVars
    /\ UNCHANGED <<dir, bg, misses, lateInserts>>

\* lines 250-251: os.remove each of them in order; the first one that is gone
\* raises FileNotFoundError and leaves the later ones in place
RemovedByLoop(d, vs) ==
    LET gone == {i \in DOMAIN vs : ~Exists(d, vs[i])}
        stop == IF gone = {} THEN Len(vs) + 1
                ELSE CHOOSE i \in gone : \A k \in gone : i <= k
    IN  {vs[i] : i \in 1..(stop - 1)}

RemoveAll(d, names) ==
    LET Kept(f) == f.name \notin names
    IN  SelectSeq(d, Kept)

EvictRemove ==
    /\ mainPc = "remove"
    /\ dir' = RemoveAll(dir, RemovedByLoop(dir, victims))
    /\ IF Range(victims) \subseteq Names(dir)
       THEN /\ deleted' = RemovedByLoop(dir, victims)
            /\ mainPc' = "exists2"
            /\ UNCHANGED <<media, localKind, listing, victims, sync, ret, ctimes, started>>
       ELSE Leave(Returned("raised"))
    /\ UNCHANGED nonCacheVars
    /\ UNCHANGED <<bg, misses, lateInserts>>

\* line 253: the second exists() check, then lines 254-258: a file:// reference
\* is used in place, an http reference is fetched, anything else is left alone
Exists2 ==
    /\ mainPc = "exists2"
    /\ IF Exists(dir, FileName(media))
       THEN mainPc' = "final" /\ localKind' = localKind /\ sync' = sync
       ELSE IF media.thumbnail_path \in {"file_ok", "file_bad"}
       THEN mainPc' = "final" /\ localKind' = "local" /\ sync' = sync
       ELSE IF media.thumbnail_path = "http"
       THEN /\ mainPc' = "sync"
            /\ localKind' = localKind
            /\ sync' = NewAttempt(SyncId(misses), FileName(media), SYNC_TIMEOUT, SYNC_TRIES)
       ELSE mainPc' = "final" /\ localKind' = localKind /\ sync' = sync
    /\ UNCHANGED nonCacheVars
    /\ UNCHANGED <<dir, media, listing, victims, bg, misses, ret, deleted, ctimes, started,
                   lateInserts>>

\* lines 259-261, 317-329: the synchronous wget opens its output file
SyncOpen ==
    /\ mainPc = "sync" /\ sync.pc = "spawned"
    /\ sync' = DlOpen(sync, dir)
    /\ dir' = WgetOpen(dir, sync.name, sync.id)
    /\ UNCHANGED nonCacheVars
    /\ UNCHANGED <<mainPc, media, localKind, listing, victims, bg, misses, ret,
                   deleted, ctimes, started, lateInserts>>

\* lines 330-332: wget exits 0, the call returns True and no thread is started
SyncSucceed ==
    /\ mainPc = "sync" /\ sync.pc = "running"
    /\ \E isImage \in BOOLEAN :
          dir' = WgetDone(dir, sync.name, sync.ino, isImage)
    /\ sync' = DlSucceed(sync)
    /\ mainPc' = "final"
    /\ UNCHANGED nonCacheVars
    /\ UNCHANGED <<media, localKind, listing, victims, bg, misses, ret, deleted, ctimes, started,
                   lateInserts>>

\* lines 333-334: wget exits non-zero (timeout, refused, HTTP error)
SyncFail ==
    /\ mainPc = "sync" /\ sync.pc = "running"
    /\ sync' = DlFail(sync, dir)
    /\ mainPc' = IF DlFail(sync, dir).pc = "false" THEN "spawn" ELSE mainPc
    /\ UNCHANGED nonCacheVars
    /\ UNCHANGED <<dir, media, localKind, listing, victims, bg, misses, ret,
                   deleted, ctimes, started, lateInserts>>

\* line 335: the exception of os.remove leaves get_media_thumbnail
SyncRemove ==
    /\ mainPc = "sync" /\ sync.pc = "removing"
    /\ dir' = DlRemoveDir(sync, dir)
    /\ IF DlRemovePc(sync, dir).pc = "false"
       THEN /\ sync' = DlRemovePc(sync, dir)
            /\ mainPc' = "spawn"
            /\ UNCHANGED <<media, localKind, listing, victims, ret, deleted, ctimes, started>>
       ELSE Leave(Returned("raised"))
    /\ UNCHANGED nonCacheVars
    /\ UNCHANGED <<bg, misses, lateInserts>>

\* lines 263-268: not success: start the detached thread and go on
\* mutant of SpawnThread: the thread given the arguments of the fast fetch
SpawnThread_fast(k, name) == NewAttempt(ThreadId(k), name, SYNC_TIMEOUT, SYNC_TRIES)

\* mutant of SpawnThread: no thread while one for the same file is in flight
SpawnThread_unlessInFlight(k, name) ==
    IF \E s \in Slots : InFlight(bg[s]) /\ bg[s].name = name
    THEN NoAttempt
    ELSE NewAttempt(ThreadId(k), name, BG_TIMEOUT, BG_TRIES)

SpawnThread(k, name) == NewAttempt(ThreadId(k), name, BG_TIMEOUT, BG_TRIES)

Spawn ==
    /\ mainPc = "spawn"
    /\ bg' = [bg EXCEPT ![misses] = SpawnThread(misses, FileName(media))]
    /\ started' = Append(started, [name |-> SpawnThread(misses, FileName(media)).name,
                                   timeout |-> SpawnThread(misses, FileName(media)).timeout,
                                   tries |-> SpawnThread(misses, FileName(media)).tries])
    /\ mainPc' = "final"
    /\ UNCHANGED nonCacheVars
    /\ UNCHANGED <<dir, media, localKind, listing, victims, sync, misses, ret,
                   deleted, ctimes, lateInserts>>

\* lines 270-274: return local_filename if it validates, else the fallback
FinalResult(d, m, kind) ==
    IF kind = "local"
    THEN IF validate_local(m.thumbnail_path) THEN Returned("local") ELSE default_thumbnail
    ELSE IF validate_image(d, FileName(m)) THEN Returned("cache") ELSE default_thumbnail

Final ==
    /\ mainPc = "final"
    /\ Leave(FinalResult(dir, media, localKind))
    /\ UNCHANGED nonCacheVars
    /\ UNCHANGED <<dir, bg, misses, lateInserts>>

(* ------------------------- background threads -------------------------- *)
\* lines 317-329: the thread's wget opens its output file; a thread that was in
\* flight at a later lookup's '> 50' check and creates the file inserts late
BgOpen(s) ==
    /\ bg[s].pc = "spawned"
    /\ bg' = [bg EXCEPT ![s] = DlOpen(bg[s], dir)]
    /\ dir' = WgetOpen(dir, bg[s].name, bg[s].id)
    /\ lateInserts' = IF bg[s].late /\ ~Exists(dir, bg[s].name)
                      THEN lateInserts + 1 ELSE lateInserts
    /\ UNCHANGED nonCacheVars
    /\ UNCHANGED <<mainPc, media, localKind, listing, victims, sync, misses, ret,
                   deleted, ctimes, started>>

BgSucceed(s) ==
    /\ bg[s].pc = "running"
    /\ \E isImage \in BOOLEAN :
          dir' = WgetDone(dir, bg[s].name, bg[s].ino, isImage)
    /\ bg' = [bg EXCEPT ![s] = Ended(DlSucceed(bg[s]))]
    /\ UNCHANGED nonCacheVars
    /\ UNCHANGED <<mainPc, media, localKind, listing, victims, sync, misses, ret,
                   deleted, ctimes, started, lateInserts>>

BgFail(s) ==
    /\ bg[s].pc = "running"
    /\ bg' = [bg EXCEPT ![s] = DlFail(bg[s], dir)]
    /\ UNCHANGED nonCacheVars
    /\ UNCHANGED <<dir, mainPc, media, localKind, listing, victims, sync, misses,
                   ret, deleted, ctimes, started, lateInserts>>

\* an exception of os.remove ends the thread and reaches nobody
BgRemove(s) ==
    /\ bg[s].pc = "removing"
    /\ bg' = [bg EXCEPT ![s] = Ended(DlRemovePc(bg[s], dir))]
    /\ dir' = DlRemoveDir(bg[s], dir)
    /\ UNCHANGED nonCacheVars
    /\ UNCHANGED <<mainPc, media, localKind, listing, victims, sync, misses, ret,
                   deleted, ctimes, started, lateInserts>>

(* --------------------------- specification ----------------------------- *)
\* the directory holds nFill older thumbnails, all of them images, created one
\* after the other; no lookup has run yet
InitDir(nFill) ==
    [i \in 1..nFill |-> [name |-> OldName(i), ino |-> 0 - i, valid |-> TRUE]]

CacheInit ==
    /\ \E nFill \in FillChoices : dir = InitDir(nFill)
    /\ mainPc = "idle"
    /\ media = NoMedia
    /\ localKind = "cache"
    /\ listing = {}
    /\ victims = <<>>
    /\ sync = NoAttempt
    /\ bg = [s \in Slots |-> NoAttempt]
    /\ misses = 0
    /\ ret = Returned("none")
    /\ deleted = {}
    /\ ctimes = <<>>
    /\ started = <<>>
    /\ lateInserts = 0

Next ==
    \/ \E m \in Medias : Lookup(m)
    \/ Hit
    \/ Glob
    \/ Sort
    \/ EvictRemove
    \/ Exists2
    \/ SyncOpen
    \/ SyncSucceed
    \/ SyncFail
    \/ SyncRemove
    \/ Spawn
    \/ Final
    \/ \E s \in Slots : BgOpen(s)
    \/ \E s \in Slots : BgSucceed(s)
    \/ \E s \in Slots : BgFail(s)
    \/ \E s \in Slots : BgRemove(s)
    \/ \E s \in Slots : BgExit(s)

(* ------------------------- interaction handler ------------------------- *)
\* what playerctl metadata can report: a title, and a position or none
TrackTitles == 1..NumTracks

\* CurrentMedia.position: None is the empty set, an int p is {p}
Positions == {{}} \cup {{p} : p \in 0..MaxPosition}

CurrentMedias == [title : TrackTitles, position : Positions]

NoCurrentMedia == [title |-> 0, position |-> {}]

\* data_classes.py:39-45: the values of RepeatState
RepeatStates == {"None", "Playlist", "Track", "Unavailable"}

\* the actions of on_event that change track or repeat mode
TrackActions == {"NEXT", "PREV"}

HandledActions == TrackActions \cup {"REPEAT"}

\* what a call of get_current_media can do: return, or raise one of these
QueryFailures == {"CalledProcessError", "ValueError"}

\* what on_event hands back to the launcher
NoResult == [kind |-> "none", title |-> ""]

MainPage == [kind |-> "page", title |-> ""]

ErrorItem(title) == [kind |-> "error", title |-> title]

Escaped(exc) == [kind |-> "raised", title |-> exc]

\* mutant of under_max_wait: the deadline itself still counts as under it
under_max_wait_inclusive(start, t) == (t - start) <= MAX_WAIT * TICKS_PER_SECOND

\* iteraction_listener.py:24-26
under_max_wait(start, t) == (t - start) < MAX_WAIT * TICKS_PER_SECOND

\* data_classes.py:48
RepeatOrder == <<"None", "Playlist", "Track">>

IndexOf(seq, x) == (CHOOSE i \in DOMAIN seq : seq[i] = x) - 1

RepeatNext_backwards(r) ==
    IF r = "Unavailable"
    THEN "Unavailable"
    ELSE RepeatOrder[((IndexOf(RepeatOrder, r) + 2) % Len(RepeatOrder)) + 1]

\* data_classes.py:47-53  RepeatState.next
RepeatNext(r) ==
    IF r = "Unavailable"
    THEN "Unavailable"
    ELSE RepeatOrder[((IndexOf(RepeatOrder, r) + 1) % Len(RepeatOrder)) + 1]

\* audio_controller.py:77-84, 127-131: the command each action sends
CommandOf(a, r) ==
    IF a = "NEXT" THEN <<"next">>
    ELSE IF a = "PREV" THEN <<"previous">>
    ELSE <<"loop", RepeatNext(r)>>

\* mutant of MediaChanged: a position that went back ends the wait of NEXT too
MediaChanged_anyAction(a, cur, prev) ==
    \/ cur.title # prev.title
    \/ /\ prev.position # {}
       /\ cur.position # {}
       /\ \E c \in cur.position : \E p \in prev.position : c < p

\* iteraction_listener.py:43-54: the conditions under which the loop breaks
MediaChanged(a, cur, prev) ==
    \/ a = "NEXT" /\ cur.title # prev.title
    \/ /\ a = "PREV"
       /\ \/ cur.title # prev.title
          \/ /\ prev.position # {}
             /\ cur.position # {}
             /\ \E c \in cur.position : \E p \in prev.position : c < p

\* mutant of ErrorTitle: the two titles swapped
ErrorTitle_swapped(a) ==
    IF a = "NEXT" THEN "Could not play previous media" ELSE "Could not play next media"

\* iteraction_listener.py:121
ErrorTitle(a) ==
    IF a = "NEXT" THEN "Could not play next media" ELSE "Could not play previous media"

\* iteraction_listener.py:106, 119: the try of the NEXT/PREV branch catches
\* CalledProcessError only; the REPEAT branch has no try
Caught(a, exc) == a \in TrackActions /\ exc = "CalledProcessError"

\* lines 119-123: an exception raised inside the branch ends on_event
Outcome(a, exc) == IF Caught(a, exc) THEN ErrorItem(ErrorTitle(a)) ELSE Escaped(exc)

\* on_event ends: its result is handed back, or the exception leaves it, and
\* its locals are gone
Return(r) ==
    /\ result' = r
    /\ hPc' = "done"
    /\ previous_media' = NoCurrentMedia
    /\ current' = NoCurrentMedia
    /\ new_status' = "Unavailable"
    /\ now' = 0
    /\ start_time' = 0
    /\ wake' = 0

\* lines 88-95: the event arrives; the player status is queried (check=False,
\* it cannot raise), the clock is read
Begin(a) ==
    /\ hPc = "idle"
    /\ action' = a
    /\ \E r \in RepeatStates : repeat_state' = r
    /\ start_time' = now
    /\ hPc' = "prequery"
    /\ UNCHANGED <<has_previous, previous_media, now, wake, current, new_status,
                   leftBy, commands, toolFailed, result>>
    /\ UNCHANGED outsideVars

\* lines 97-101: the media before the action; a non-zero exit leaves None, a
\* missing metadata field raises ValueError out of on_event
PreQuery ==
    /\ hPc = "prequery"
    /\ \/ \E m \in CurrentMedias :
             /\ has_previous' = TRUE
             /\ previous_media' = m
             /\ hPc' = "dispatch"
             /\ UNCHANGED <<toolFailed, result, now, start_time, wake, current, new_status>>
       \/ /\ has_previous' = FALSE
          /\ toolFailed' = "prequery"
          /\ hPc' = "dispatch"
          /\ UNCHANGED <<previous_media, result, now, start_time, wake, current, new_status>>
       \/ /\ Return(Escaped("ValueError"))
          /\ UNCHANGED <<has_previous, toolFailed>>
    /\ UNCHANGED <<action, repeat_state, leftBy, commands>>
    /\ UNCHANGED outsideVars

\* lines 107-109: NEXT or PREV without a snapshot raises ValueError inside the try
NoPrevious ==
    /\ hPc = "dispatch"
    /\ action \in TrackActions
    /\ ~has_previous
    /\ Return(Outcome(action, "ValueError"))
    /\ UNCHANGED <<action, repeat_state, has_previous, leftBy, commands, toolFailed>>
    /\ UNCHANGED outsideVars

\* lines 110-113 and 157-158: the command is sent; a non-zero exit raises
\* CalledProcessError.  REPEAT reads the clock again first (line 157): only
\* differences of clock readings are ever used, so the clock is restarted
\* there and the new start_time is its first reading
Command ==
    /\ hPc = "dispatch"
    /\ action \in TrackActions => has_previous
    /\ commands' = Append(commands, CommandOf(action, repeat_state))
    /\ \/ /\ hPc' = "check"
          /\ now' = IF action = "REPEAT" THEN 0 ELSE now
          /\ start_time' = IF action = "REPEAT" THEN 0 ELSE start_time
          /\ UNCHANGED <<toolFailed, result, previous_media, wake, current, new_status>>
       \/ /\ toolFailed' = "command"
          /\ Return(Outcome(action, "CalledProcessError"))
    /\ UNCHANGED <<action, repeat_state, has_previous, leftBy>>
    /\ UNCHANGED outsideVars

\* lines 40 and 69: the loop condition reads the clock; under the deadline the
\* next poll is issued, otherwise the waiter returns
Check ==
    /\ hPc = "check"
    /\ IF under_max_wait(start_time, now)
       THEN /\ hPc' = "poll"
            /\ UNCHANGED leftBy
       ELSE /\ hPc' = "render"
            /\ leftBy' = "timeout"
    /\ UNCHANGED <<action, repeat_state, has_previous, previous_media, now, start_time, wake,
                   current, new_status, commands, toolFailed, result>>
    /\ UNCHANGED outsideVars

\* line 41: the poll of the media waiter returns the current media or raises
PollMedia ==
    /\ hPc = "poll"
    /\ action \in TrackActions
    /\ \/ \E m \in CurrentMedias :
             /\ current' = m
             /\ hPc' = "decide"
             /\ UNCHANGED <<toolFailed, result, previous_media, now, start_time, wake,
                            new_status>>
       \/ /\ toolFailed' = "poll"
          /\ Return(Outcome(action, "CalledProcessError"))
       \/ /\ Return(Outcome(action, "ValueError"))
          /\ UNCHANGED toolFailed
    /\ UNCHANGED <<action, repeat_state, has_previous, leftBy, commands>>
    /\ UNCHANGED outsideVars

\* line 70: the poll of the repeat waiter; get_player_status cannot raise
PollRepeat ==
    /\ hPc = "poll"
    /\ action = "REPEAT"
    /\ \E r \in RepeatStates : new_status' = r
    /\ hPc' = "decide"
    /\ UNCHANGED <<action, repeat_state, has_previous, previous_media, now, start_time, wake,
                   current, leftBy, commands, toolFailed, result>>
    /\ UNCHANGED outsideVars

\* lines 43-56 and 71-73: break, or sleep a tenth of a second
Decide ==
    /\ hPc = "decide"
    /\ IF \/ action \in TrackActions /\ MediaChanged(action, current, previous_media)
          \/ action = "REPEAT" /\ new_status # repeat_state
       THEN /\ hPc' = "render"
            /\ leftBy' = "break"
            /\ UNCHANGED wake
       ELSE /\ hPc' = "sleep"
            /\ wake' = now + SLEEP_TICKS
            /\ UNCHANGED leftBy
    /\ UNCHANGED <<action, repeat_state, has_previous, previous_media, now, start_time,
                   current, new_status, commands, toolFailed, result>>
    /\ UNCHANGED outsideVars

\* lines 56 and 73: the sleep is over
Sleep ==
    /\ hPc = "sleep"
    /\ now >= wake
    /\ hPc' = "check"
    /\ wake' = 0
    /\ UNCHANGED <<action, repeat_state, has_previous, previous_media, now, start_time,
                   current, new_status, leftBy, commands, toolFailed, result>>
    /\ UNCHANGED outsideVars

\* lines 118 and 163, main.py:68-120: the main page is rendered; its call of
\* get_current_media can raise as every other one
Render ==
    /\ hPc = "render"
    /\ \/ /\ Return(MainPage)
          /\ UNCHANGED toolFailed
       \/ /\ toolFailed' = "render"
          /\ Return(Outcome(action, "CalledProcessError"))
       \/ /\ Return(Outcome(action, "ValueError"))
          /\ UNCHANGED toolFailed
    /\ UNCHANGED <<action, repeat_state, has_previous, leftBy, commands>>
    /\ UNCHANGED outsideVars

\* a tenth of a second passes while the handler runs
Tick ==
    /\ hPc \notin {"idle", "done"}
    /\ now < start_time + MAX_WAIT * TICKS_PER_SECOND + MaxOverrun
    /\ now' = now + 1
    /\ UNCHANGED <<hPc, action, repeat_state, has_previous, previous_media, start_time, wake,
                   current, new_status, leftBy, commands, toolFailed, result>>
    /\ UNCHANGED outsideVars

HandlerInit ==
    /\ hPc = "idle"
    /\ action = "NEXT"
    /\ repeat_state = "Unavailable"
    /\ has_previous = FALSE
    /\ previous_media = NoCurrentMedia
    /\ now = 0
    /\ start_time = 0
    /\ wake = 0
    /\ current = NoCurrentMedia
    /\ new_status = "Unavailable"
    /\ leftBy = "none"
    /\ commands = <<>>
    /\ toolFailed = "none"
    /\ result = NoResult

(* ------------------------------ players ------------------------------- *)
PlayerIds == 1..NumPlayers

\* the playback states of a player: PlaybackStatus of MPRIS
PlaybackStates == {"Playing", "Paused", "Stopped"}

\* no SELECT_PLAYER event has arrived
NoPlayer == 0

\* no player is registered, nothing has been rendered
PlayersIdle ==
    /\ registered = {}
    /\ playback = [p \in PlayerIds |-> "Stopped"]
    /\ target = NoPlayer
    /\ shown = <<>>

(* ------------------------------- mixer --------------------------------- *)
\* main.py:38: MuteState(False); the sink is taken to be unmuted at start
MixerInit ==
    /\ is_muted = FALSE
    /\ sink_muted = FALSE
    /\ vol_int = 0
    /\ flag_before = FALSE
    /\ sink_before = FALSE
    /\ mixer_ok = TRUE

\* no function has been applied
PureIdle ==
    /\ fn = "none"
    /\ input = <<>>
    /\ output = <<>>

Init == CacheInit /\ HandlerInit /\ PlayersIdle /\ MixerInit /\ PureIdle

Spec == Init /\ [][Next]_vars

InteractionNext ==
    \/ \E a \in HandledActions : Begin(a)
    \/ PreQuery
    \/ NoPrevious
    \/ Command
    \/ Check
    \/ PollMedia
    \/ PollRepeat
    \/ Decide
    \/ Sleep
    \/ Render
    \/ Tick

\* the interaction handler alone: the thumbnail directory stays empty
InteractionInit == Init /\ dir = InitDir(0)

SpecInteraction == InteractionInit /\ [][InteractionNext]_vars

(* ------------------------- player selection --------------------------- *)
\* the actions of on_event that list the players and switch to one
PlayerActions == {"PLAYER_SELECT_MENU", "SELECT_PLAYER"}

\* what on_event hands back from render_players
PlayersPage == [kind |-> "players", title |-> ""]

\* menu_builder.py:247-262  build_player_select: the 'Change player' item
ChangePlayerItem == [action |-> "PLAYER_SELECT_MENU", player |-> NoPlayer]

\* what a player does on a command of playerctl
PlayerAfter(cmd, state) ==
    IF cmd = "play" THEN "Playing"
    ELSE IF cmd = "pause" THEN (IF state = "Playing" THEN "Paused" ELSE state)
    ELSE IF state = "Playing" THEN "Paused" ELSE "Playing"

\* mutant of TargetCommands: the closing play-pause left out
TargetCommands_noToggle == <<"play", "pause", "pause">>

\* audio_controller.py:178-180: the commands sent to the target, in order
TargetCommands == <<"play", "pause", "play-pause">>

\* the position in change_player before the k-th command to the target
TargetPc(k) ==
    IF k = 1 THEN "cp_first" ELSE IF k = 2 THEN "cp_second"
    ELSE IF k = 3 THEN "cp_third" ELSE "cp_end"

\* main.py:122-125, lines 164-165: render_players hands the single item of
\* build_player_select, not a list, to RenderResultListAction; the launcher
\* shows that item or, unable to iterate over it, nothing
RenderPlayers ==
    /\ hPc = "dispatch"
    /\ action = "PLAYER_SELECT_MENU"
    /\ \E list \in {<<ChangePlayerItem>>, <<>>} : shown' = list
    /\ Return(PlayersPage)
    /\ UNCHANGED <<action, repeat_state, has_previous, leftBy, commands, toolFailed>>
    /\ UNCHANGED <<registered, playback, target>>
    /\ UNCHANGED <<cacheVars, mixerVars, pureVars>>

\* lines 166-167, audio_controller.py:177: change_player(data["player"]) starts
\* with pause to all players; a non-zero exit raises out of on_event
PauseAll ==
    /\ hPc = "dispatch"
    /\ action = "SELECT_PLAYER"
    /\ \E p \in PlayerIds : target' = p
    /\ commands' = Append(commands, <<"pause-all">>)
    /\ \/ /\ registered # {}
          /\ playback' = [p \in PlayerIds |->
                            IF p \in registered THEN PlayerAfter("pause", playback[p])
                            ELSE playback[p]]
          /\ hPc' = TargetPc(1)
          /\ UNCHANGED <<toolFailed, result, previous_media, current, new_status, now,
                         start_time, wake>>
       \/ /\ toolFailed' = "command"
          /\ Return(Outcome(action, "CalledProcessError"))
          /\ UNCHANGED playback
    /\ UNCHANGED <<action, repeat_state, has_previous, leftBy>>
    /\ UNCHANGED <<registered, shown>>
    /\ UNCHANGED <<cacheVars, mixerVars, pureVars>>

\* audio_controller.py:178-180: the k-th command to the target; after the last
\* one on_event returns None
ToTarget(k) ==
    /\ hPc = TargetPc(k)
    /\ commands' = Append(commands, <<TargetCommands[k], target>>)
    /\ \/ /\ target \in registered
          /\ playback' = [playback EXCEPT ![target] = PlayerAfter(TargetCommands[k], @)]
          /\ IF k < Len(TargetCommands)
             THEN /\ hPc' = TargetPc(k + 1)
                  /\ UNCHANGED <<result, previous_media, current, new_status, now,
                                 start_time, wake>>
             ELSE Return(NoResult)
          /\ UNCHANGED toolFailed
       \/ /\ toolFailed' = "command"
          /\ Return(Outcome(action, "CalledProcessError"))
          /\ UNCHANGED playback
    /\ UNCHANGED <<action, repeat_state, has_previous, leftBy>>
    /\ UNCHANGED <<registered, target, shown>>
    /\ UNCHANGED <<cacheVars, mixerVars, pureVars>>

\* the launcher delivers the next event: the history of the last one is dropped
NextEvent ==
    /\ hPc = "done"
    /\ hPc' = "idle"
    /\ has_previous' = FALSE
    /\ leftBy' = "none"
    /\ commands' = <<>>
    /\ toolFailed' = "none"
    /\ result' = NoResult
    /\ target' = NoPlayer
    /\ UNCHANGED <<action, repeat_state, previous_media, now, start_time, wake, current,
                   new_status>>
    /\ UNCHANGED <<registered, playback, shown>>
    /\ UNCHANGED <<cacheVars, mixerVars, pureVars>>

\* some players are registered, each in any playback state
PlayersInit ==
    /\ registered \in SUBSET PlayerIds
    /\ playback \in [PlayerIds -> PlaybackStates]
    /\ target = NoPlayer
    /\ shown = <<>>

SelectionInit ==
    CacheInit /\ dir = InitDir(0) /\ HandlerInit /\ PlayersInit /\ MixerInit /\ PureIdle

SelectionNext ==
    \/ \E a \in PlayerActions : Begin(a)
    \/ PreQuery
    \/ RenderPlayers
    \/ PauseAll
    \/ \E k \in DOMAIN TargetCommands : ToTarget(k)
    \/ NextEvent

SpecSelection == SelectionInit /\ [][SelectionNext]_vars

(* --------------------------- volume and mute --------------------------- *)
\* the actions of on_event that talk to the mixer
MixerActions == {"MUTE", "SET_VOL"}

\* the characters of a volume component: the digits 0, 1 and 5, and one
\* character that is no digit
NonDigit == 10

VolumeChars == {0, 1, 5, NonDigit}

RECURSIVE SeqsUpTo(_, _)
SeqsUpTo(S, n) ==
    IF n = 0 THEN {<<>>}
    ELSE LET shorter == SeqsUpTo(S, n - 1)
         IN  shorter \cup {Append(q, c) : q \in {r \in shorter : Len(r) = n - 1}, c \in S}

\* lines 133-136: query.command or query.components[0]
VolComponents == SeqsUpTo(VolumeChars, MaxComponentLen)

\* line 138: "".join(filter(str.isdigit, vol_component))
DigitsOf(component) ==
    LET IsDigit(c) == c < NonDigit
    IN  SelectSeq(component, IsDigit)

\* line 143: int(vol_amount_str)
RECURSIVE IntOf(_)
IntOf(digits) ==
    IF digits = <<>> THEN 0
    ELSE 10 * IntOf(SubSeq(digits, 1, Len(digits) - 1)) + digits[Len(digits)]

Min(a, b) == IF a < b THEN a ELSE b

Max(a, b) == IF a > b THEN a ELSE b

\* mutant of Clamp: the upper limit not applied
Clamp_noUpper(v) == Max(0, v)

\* audio_controller.py:100: max(0, min(set_vol, 100))
Clamp(v) == Max(0, Min(v, MAX_VOLUME))

\* audio_controller.py:102-108, 118-120: the pactl calls of global_volume in
\* order: set-sink-mute 1, or set-sink-mute 0 and set-sink-volume <n>%
global_volume(set_vol) ==
    IF Clamp(set_vol) = 0
    THEN <<<<"set-sink-mute", 1>>>>
    ELSE <<<<"set-sink-mute", 0>>, <<"set-sink-volume", Clamp(set_vol)>>>>

\* what the sink's mute flag is after a pactl call that succeeded
SinkAfter(call, muted) == IF call[1] = "set-sink-mute" THEN call[2] = 1 ELSE muted

\* mutant of MuteArg: the old value of the flag sent to the sink
MuteArg_stale(flag) == IF flag THEN 0 ELSE 1

\* lines 125-130, audio_controller.py:119: "1" if mute else "0"
MuteArg(flag) == IF flag THEN 1 ELSE 0

\* lines 125-126, 129: MUTE flips the flag first
MuteFlag ==
    /\ hPc = "dispatch"
    /\ action = "MUTE"
    /\ is_muted' = ~is_muted
    /\ hPc' = "set_mute"
    /\ flag_before' = is_muted
    /\ sink_before' = sink_muted
    /\ UNCHANGED <<action, repeat_state, has_previous, previous_media, now, start_time, wake,
                   current, new_status, leftBy, commands, toolFailed, result>>
    /\ UNCHANGED <<sink_muted, vol_int, mixer_ok>>
    /\ UNCHANGED <<cacheVars, playerVars, pureVars>>

\* lines 127, 130: then set_mute with the new value; a non-zero exit raises
\* out of on_event
MuteCall ==
    /\ hPc = "set_mute"
    /\ commands' = Append(commands, <<"set-sink-mute", MuteArg(is_muted)>>)
    /\ \/ /\ sink_muted' = SinkAfter(<<"set-sink-mute", MuteArg(is_muted)>>, sink_muted)
          /\ Return(NoResult)
          /\ UNCHANGED <<toolFailed, mixer_ok>>
       \/ /\ toolFailed' = "command"
          /\ mixer_ok' = FALSE
          /\ Return(Outcome(action, "CalledProcessError"))
          /\ UNCHANGED sink_muted
    /\ UNCHANGED <<action, repeat_state, has_previous, leftBy>>
    /\ UNCHANGED <<is_muted, vol_int, flag_before, sink_before>>
    /\ UNCHANGED <<cacheVars, playerVars, pureVars>>

\* the position in global_volume before its k-th pactl call
VolumePc(k) == IF k = 1 THEN "gv_first" ELSE "gv_second"

\* lines 132-143: the volume is parsed from the query; without a digit the
\* ValueError is caught and logged (lines 150-153) and on_event returns None
ParseVolume ==
    /\ hPc = "dispatch"
    /\ action = "SET_VOL"
    /\ \E component \in VolComponents :
          IF DigitsOf(component) = <<>>
          THEN /\ Return(NoResult)
               /\ UNCHANGED vol_int
          ELSE /\ vol_int' = IntOf(DigitsOf(component))
               /\ hPc' = VolumePc(1)
               /\ UNCHANGED <<result, previous_media, current, new_status, now, start_time,
                              wake>>
    /\ flag_before' = is_muted
    /\ sink_before' = sink_muted
    /\ UNCHANGED <<action, repeat_state, has_previous, leftBy, commands, toolFailed>>
    /\ UNCHANGED <<is_muted, sink_muted, mixer_ok>>
    /\ UNCHANGED <<cacheVars, playerVars, pureVars>>

\* line 144: the k-th pactl call of global_volume(vol_int); a non-zero exit
\* raises CalledProcessError, which lines 150-153 do not catch
VolumeCall(k) ==
    /\ hPc = VolumePc(k)
    /\ k <= Len(global_volume(vol_int))
    /\ commands' = Append(commands, global_volume(vol_int)[k])
    /\ \/ /\ sink_muted' = SinkAfter(global_volume(vol_int)[k], sink_muted)
          /\ hPc' = IF k < Len(global_volume(vol_int)) THEN VolumePc(k + 1) ELSE "set_flag"
          /\ UNCHANGED <<toolFailed, mixer_ok, result, previous_media, current, new_status,
                         now, start_time, wake>>
       \/ /\ toolFailed' = "command"
          /\ mixer_ok' = FALSE
          /\ Return(Outcome(action, "CalledProcessError"))
          /\ UNCHANGED sink_muted
    /\ UNCHANGED <<action, repeat_state, has_previous, leftBy>>
    /\ UNCHANGED <<is_muted, vol_int, flag_before, sink_before>>
    /\ UNCHANGED <<cacheVars, playerVars, pureVars>>

\* lines 146-149: the flag follows the parsed volume; on_event returns None
VolumeFlag ==
    /\ hPc = "set_flag"
    /\ is_muted' = (vol_int = 0)
    /\ Return(NoResult)
    /\ UNCHANGED <<action, repeat_state, has_previous, leftBy, commands, toolFailed>>
    /\ UNCHANGED <<sink_muted, vol_int, flag_before, sink_before, mixer_ok>>
    /\ UNCHANGED <<cacheVars, playerVars, pureVars>>

MixerSpecInit ==
    CacheInit /\ dir = InitDir(0) /\ HandlerInit /\ PlayersIdle /\ MixerInit /\ PureIdle

MixerNext ==
    \/ \E a \in MixerActions : Begin(a)
    \/ PreQuery
    \/ MuteFlag
    \/ MuteCall
    \/ ParseVolume
    \/ \E k \in 1..2 : VolumeCall(k)
    \/ VolumeFlag
    \/ NextEvent

SpecMixer == MixerSpecInit /\ [][MixerNext]_vars

(* ------------------------- functions applied alone --------------------- *)
\* the arguments global_volume is applied to
VolumeInputs == (0 - MaxExcess)..(MAX_VOLUME + MaxExcess)

\* a function is applied to an input and its result is kept
Applied(name, x, y) ==
    /\ fn = "none"
    /\ fn' = name
    /\ input' = x
    /\ output' = y
    /\ UNCHANGED <<cacheVars, handlerVars, playerVars, mixerVars>>

\* audio_controller.py:92-108: global_volume(set_vol), every pactl call succeeding
ApplyGlobalVolume ==
    \E v \in VolumeInputs : Applied("global_volume", v, global_volume(v))

\* longest title, in tokens, that the metadata query reports
MaxValueLen == 2

\* audio_controller.py:191-195: the keys of the format string, in its order
FormatKeys == <<"artUrl:", "artist:", "title:", "album:", "playerName:", "position:">>

FieldOf(key) ==
    CASE key = "artUrl:" -> "artUrl"
      [] key = "artist:" -> "artist"
      [] key = "title:" -> "title"
      [] key = "album:" -> "album"
      [] key = "playerName:" -> "playerName"
      [] key = "position:" -> "position"

\* pieces of text a title is made of: a word, a number, and text that ends
\* in "position:" (as "Superposition:" does)
Tokens == {"a", "7", "position:"}

Digits == {"7"}

PlainValues == {<<>>, <<"a">>}

\* the position playerctl reports is a number of microseconds or nothing
PositionValues == {<<>>, <<"7">>}

TitleValues == SeqsUpTo(Tokens, MaxValueLen)

\* what "playerctl metadata --format ..." can print, field by field
Metadata ==
    [artUrl : PlainValues, artist : PlainValues, title : TitleValues,
     album : PlainValues, playerName : PlainValues, position : PositionValues]

\* audio_controller.py:196: the lines of the output, "key:value" each
ResultLines(m) ==
    [i \in 1..Len(FormatKeys) |-> <<FormatKeys[i]>> \o m[FieldOf(FormatKeys[i])]]

\* audio_controller.py:393: the places where re.search(rf"{item}:(.+)") can
\* match: the key anywhere in a line with at least one character after it on
\* the same line
MatchPlaces(key, lines) ==
    {p \in (1..Len(lines)) \X (1..(MaxValueLen + 1)) :
        /\ p[2] < Len(lines[p[1]])
        /\ lines[p[1]][p[2]] = key}

\* re.search returns the leftmost match
Leftmost(places) ==
    CHOOSE p \in places :
        \A q \in places : p[1] < q[1] \/ (p[1] = q[1] /\ p[2] <= q[2])

NotFound(item) == [kind |-> "ValueError", message |-> "Could not find", item |-> item]

Found(text) == [kind |-> "str", text |-> text]

\* audio_controller.py:377-401
extract_regex_item(key, lines, ok_if_empty) ==
    LET places == MatchPlaces(key, lines)
    IN  IF places = {}
        THEN IF ok_if_empty THEN Found(<<>>) ELSE NotFound(FieldOf(key))
        ELSE LET p == Leftmost(places)
             IN  Found(SubSeq(lines[p[1]], p[2] + 1, Len(lines[p[1]])))

\* str.capitalize on the one-word player names of PlainValues
Capitalize(text) ==
    [i \in 1..Len(text) |-> IF i = 1 /\ text[i] = "a" THEN "A" ELSE text[i]]

DigitValue(token) == IF token = "7" THEN 7 ELSE 0

RECURSIVE IntOfText(_)
IntOfText(text) ==
    IF text = <<>> THEN 0
    ELSE 10 * IntOfText(SubSeq(text, 1, Len(text) - 1)) + DigitValue(text[Len(text)])

\* int(position): a ValueError of its own for text that is no number
IsNumber(text) == text # <<>> /\ \A i \in 1..Len(text) : text[i] \in Digits

InvalidLiteral == [kind |-> "ValueError", message |-> "invalid literal", item |-> "position"]

\* audio_controller.py:198-212: the first failing extraction raises, nothing
\* is returned then
get_current_media(m) ==
    LET lines == ResultLines(m)
        artUrl == extract_regex_item("artUrl:", lines, FALSE)
        artist == extract_regex_item("artist:", lines, FALSE)
        title == extract_regex_item("title:", lines, FALSE)
        player == extract_regex_item("playerName:", lines, FALSE)
        album == extract_regex_item("album:", lines, TRUE)
        position == extract_regex_item("position:", lines, TRUE)
    IN  IF artUrl.kind # "str" THEN artUrl
        ELSE IF artist.kind # "str" THEN artist
        ELSE IF title.kind # "str" THEN title
        ELSE IF player.kind # "str" THEN player
        ELSE IF position.text # <<>> /\ ~IsNumber(position.text) THEN InvalidLiteral
        ELSE [kind |-> "CurrentMedia",
              thumbnail_path |-> artUrl.text,
              artist |-> artist.text,
              title |-> title.text,
              player |-> Capitalize(player.text),
              album |-> album.text,
              position |-> IF position.text = <<>> THEN {}
                           ELSE {IntOfText(position.text)}]

ApplyGetCurrentMedia ==
    \E m \in Metadata : Applied("get_current_media", m, get_current_media(m))

\* longest status text, in phrases, that "playerctl status" prints
MaxStatusLen == 3

\* the phrases parse_media_state looks for, and one it does not
StatusPhrases == {"No players found", "Playing", "Paused", "Stopped"}

StatusTexts == SeqsUpTo(StatusPhrases, MaxStatusLen)

\* phrase in text
Contains(phrase, text) == \E i \in 1..Len(text) : text[i] = phrase

parse_media_state_pausedFirst(player_status) ==
    IF Contains("No players found", player_status) THEN "NO_PLAYER"
    ELSE IF Contains("Paused", player_status) THEN "PAUSED"
    ELSE IF Contains("Playing", player_status) THEN "PLAYING"
    ELSE "ERROR"

\* audio_controller.py:341-352
parse_media_state(player_status) ==
    IF Contains("No players found", player_status) THEN "NO_PLAYER"
    ELSE IF Contains("Playing", player_status) THEN "PLAYING"
    ELSE IF Contains("Paused", player_status) THEN "PAUSED"
    ELSE "ERROR"

ApplyParseMediaState ==
    \E t \in StatusTexts : Applied("parse_media_state", t, parse_media_state(t))

\* RepeatState.next applied n times in a row
RECURSIVE NextTimes(_, _)
NextTimes(r, n) == IF n = 0 THEN r ELSE RepeatNext(NextTimes(r, n - 1))

ApplyRepeatNext ==
    \E r \in RepeatStates, n \in 1..Len(RepeatOrder) :
        Applied("next", <<r, n>>, NextTimes(r, n))

\* the call has returned and nothing of it is kept
Forget ==
    /\ fn # "none"
    /\ fn' = "none"
    /\ input' = <<>>
    /\ output' = <<>>
    /\ UNCHANGED <<cacheVars, handlerVars, playerVars, mixerVars>>

(* ------------------------------ main page ------------------------------ *)
\* menu_builder.py:33-43
DEFAULT_MENU_ORDER ==
    <<"CURRENT_MEDIA", "PLAY_PAUSE", "NEXT_TRACK", "PREV_TRACK", "SHUFFLE",
      "REPEAT", "VOLUME", "MUTE", "PLAYER_SELECT_MENU">>

MediaPlaybackStates == {"PLAYING", "PAUSED", "ERROR", "NO_PLAYER"}

ShuffleStates == {"On", "Off", "Unavailable"}

\* data_classes.py:91-97; kind is the class of the object
PlayerStatuses ==
    [kind : {"PlayerStatus"}, playback_state : MediaPlaybackStates,
     shuffle_state : ShuffleStates, repeat_state : RepeatStates]

\* data_classes.py:112-115: Query("", [])
EmptyQuery == [kind |-> "Query", command |-> "", components |-> <<>>]

NoQuery == [kind |-> "None"]

Items(list) == [kind |-> "items", items |-> list]

\* an exception leaves the function; nothing is returned
Raised(error) == [kind |-> "raised", error |-> error]

\* menu_builder.py:197-222: query.components is read of whatever the caller
\* passed that is not None; only a Query has that attribute
build_volume(query) ==
    IF query.kind = "None" THEN Items(<<"VOLUME">>)
    ELSE IF query.kind = "Query" THEN Items(<<"VOLUME">>)
    ELSE Raised("AttributeError")

\* menu_builder.py:144-159, 170-182: None when the state is Unavailable
build_shuffle(player_status) ==
    IF player_status.shuffle_state = "Unavailable" THEN <<>> ELSE <<"SHUFFLE">>

build_repeat(player_status) ==
    IF player_status.repeat_state = "Unavailable" THEN <<>> ELSE <<"REPEAT">>

\* menu_builder.py:379-407: one case of the match statement; the metadata
\* query and the thumbnail lookup of build_current_media succeeding
BuildItem(item, query, player_status) ==
    CASE item = "SHUFFLE" -> Items(build_shuffle(player_status))
      [] item = "REPEAT" -> Items(build_repeat(player_status))
      [] item = "VOLUME" -> build_volume(query)
      [] item = "ERROR" -> Items(<<>>)
      [] OTHER -> Items(<<item>>)

\* menu_builder.py:358-409: player_status is what get_player_status answers
\* at line 374
RECURSIVE build_menu(_, _, _)
build_menu(menu_order, query, player_status) ==
    IF menu_order = <<>> THEN Items(<<>>)
    ELSE LET before == build_menu(SubSeq(menu_order, 1, Len(menu_order) - 1),
                                  query, player_status)
             last == BuildItem(menu_order[Len(menu_order)], query, player_status)
         IN  IF before.kind = "raised" THEN before
             ELSE IF last.kind = "raised" THEN last
             ELSE Items(before.items \o last.items)

\* menu_builder.py:337-356: "not query" holds for None only among the
\* arguments passed: a PlayerStatus and a Query are dataclass instances
build_main_menu(query, player_status) ==
    build_menu(DEFAULT_MENU_ORDER,
               IF query.kind = "None" THEN EmptyQuery ELSE query,
               player_status)

\* menu_builder.py:300-317
no_player_item(player_status) ==
    LET rest == build_menu(<<"VOLUME", "MUTE">>, NoQuery, player_status)
    IN  IF rest.kind = "raised" THEN rest
        ELSE Items(<<"NO_PLAYER">> \o rest.items)

\* main.py:68-120 with action None, as keyword_listener.py:43 calls it:
\* player_status is the caller's, later what build_menu is answered
render_main_page(player_status, later) ==
    IF player_status.playback_state = "ERROR" THEN Items(<<"NO_MEDIA">>)
    ELSE IF player_status.playback_state = "NO_PLAYER" THEN no_player_item(later)
    ELSE LET menu == build_main_menu(player_status, later)
         IN  IF menu.kind = "raised" THEN menu
             ELSE Items(<<"CURRENT_MEDIA">> \o menu.items)

ApplyRenderMainPage ==
    \E player_status \in PlayerStatuses, later \in PlayerStatuses :
        Applied("render_main_page", <<player_status, later>>,
                render_main_page(player_status, later))

(* ----------------------------- keyword query --------------------------- *)
\* the texts of the menu and of the aliases, character by character
UNMUTE_NAME == <<"U", "n", "m", "u", "t", "e">>

MUTE_NAME == <<"M", "u", "t", "e">>

PLAY_WORD == <<"p", "l", "a", "y">>

PAUSE_WORD == <<"p", "a", "u", "s", "e">>

NEXT_WORD == <<"n", "e", "x", "t">>

PREVIOUS_WORD == <<"p", "r", "e", "v", "i", "o", "u", "s">>

REPEAT_WORD == <<"r", "e", "p", "e", "a", "t">>

SHUFFLE_WORD == <<"s", "h", "u", "f", "f", "l", "e">>

VOLUME_WORD == <<"v", "o", "l", "u", "m", "e">>

SONG_TITLE == <<"S", "o", "n", "g">>

PAUSE_NAME == <<"P", "a", "u", "s", "e">>

PLAY_NAME == <<"P", "l", "a", "y">>

NEXT_NAME == <<"N", "e", "x", "t", " ", "T", "r", "a", "c", "k">>

PREVIOUS_NAME == <<"P", "r", "e", "v", "i", "o", "u", "s", " ", "T", "r", "a", "c", "k">>

SHUFFLE_ON_NAME == <<"S", "h", "u", "f", "f", "l", "e", " ", "O", "n">>

SHUFFLE_OFF_NAME == <<"S", "h", "u", "f", "f", "l", "e", " ", "O", "f", "f">>

REPEAT_OFF_NAME == <<"R", "e", "p", "e", "a", "t", ":", " ", "O", "f", "f">>

REPEAT_PLAYLIST_NAME == <<"R", "e", "p", "e", "a", "t", ":", " ", "P", "l", "a", "y", "l", "i", "s", "t">>

REPEAT_TRACK_NAME == <<"R", "e", "p", "e", "a", "t", ":", " ", "T", "r", "a", "c", "k">>

VOLUME_NAME == <<"V", "o", "l", "u", "m", "e">>

CHANGE_PLAYER_NAME == <<"C", "h", "a", "n", "g", "e", " ", "p", "l", "a", "y", "e", "r">>

\* longest command typed after the keyword, in characters
MaxCommandLen == 2

\* characters typed: three letters and a digit
TypedChars == {"v", "m", "u", "5"}

IsAlpha(c) == c \in {"v", "m", "u"}

IsDigit(c) == c = "5"

\* keyword_listener.py:45: the first word of the argument
TypedCommands == SeqsUpTo(TypedChars, MaxCommandLen) \ {<<>>}

\* str.lower, character by character
LowerChar(c) ==
    CASE c = "C" -> "c" [] c = "M" -> "m" [] c = "N" -> "n" [] c = "O" -> "o"
      [] c = "P" -> "p" [] c = "R" -> "r" [] c = "S" -> "s" [] c = "T" -> "t"
      [] c = "U" -> "u" [] c = "V" -> "v" [] OTHER -> c

Lower(text) == [i \in 1..Len(text) |-> LowerChar(text[i])]

Letters(text) == SelectSeq(text, IsAlpha)

Decimals(text) == SelectSeq(text, IsDigit)

\* data_classes.py:147-149
get_next_action(muted) == IF muted THEN UNMUTE_NAME ELSE MUTE_NAME

\* main.py:25-34, 48-59: the words the one-letter commands stand for
get_aliases(player_status, muted) ==
    [key \in {<<"p">>, <<"m">>, <<"n">>, <<"b">>, <<"v">>, <<"v", "o", "l">>,
              <<"r">>, <<"s">>} |->
        CASE key = <<"p">> ->
                IF player_status.playback_state = "PAUSED" THEN PLAY_WORD ELSE PAUSE_WORD
          [] key = <<"m">> -> Lower(get_next_action(muted))
          [] key = <<"n">> -> NEXT_WORD
          [] key = <<"b">> -> PREVIOUS_WORD
          [] key = <<"r">> -> REPEAT_WORD
          [] key = <<"s">> -> SHUFFLE_WORD
          [] OTHER -> VOLUME_WORD]

\* keyword_listener.py:48-67: "vol50" is split, then an alias is expanded
SplitCommand(typed) ==
    IF (\E i \in 1..Len(typed) : IsAlpha(typed[i])) /\ (\E i \in 1..Len(typed) : IsDigit(typed[i]))
    THEN [command |-> Letters(typed), components |-> <<Decimals(typed)>>]
    ELSE [command |-> typed, components |-> <<>>]

ExpandAlias(q, aliases) ==
    LET alpha_command == Letters(Lower(q.command))
        decimal_command == Decimals(q.command)
    IN  IF alpha_command \in DOMAIN aliases
        THEN [kind |-> "Query",
              command |-> aliases[alpha_command],
              components |-> IF decimal_command # <<>>
                             THEN Append(q.components, decimal_command)
                             ELSE q.components]
        ELSE [kind |-> "Query", command |-> q.command, components |-> q.components]

\* the name each item is built with
NameOf(item, player_status, muted) ==
    CASE item = "CURRENT_MEDIA" -> SONG_TITLE
      [] item = "PLAY_PAUSE" ->
            IF player_status.playback_state = "PLAYING" THEN PAUSE_NAME ELSE PLAY_NAME
      [] item = "NEXT_TRACK" -> NEXT_NAME
      [] item = "PREV_TRACK" -> PREVIOUS_NAME
      [] item = "SHUFFLE" ->
            IF player_status.shuffle_state = "On" THEN SHUFFLE_ON_NAME ELSE SHUFFLE_OFF_NAME
      [] item = "REPEAT" ->
            CASE player_status.repeat_state = "None" -> REPEAT_OFF_NAME
              [] player_status.repeat_state = "Playlist" -> REPEAT_PLAYLIST_NAME
              [] OTHER -> REPEAT_TRACK_NAME
      [] item = "VOLUME" -> VOLUME_NAME
      [] item = "MUTE" -> get_next_action(muted)
      [] OTHER -> CHANGE_PLAYER_NAME

\* term in name
IsSubstring(term, name) ==
    \E i \in 0..(Len(name) - Len(term)) : SubSeq(name, i + 1, i + Len(term)) = term

\* keyword_listener.py:79-84: command holds no blank, so it is the one term
Matched(items, command, player_status, muted) ==
    LET Matches(item) == IsSubstring(Lower(command), Lower(NameOf(item, player_status, muted)))
    IN  SelectSeq(items, Matches)

\* MenuBuilder has no attribute build_volume_and_mute: looking it up raises
build_volume_and_mute(muted, query) == Raised("AttributeError")

\* keyword_listener.py:21-85, the status answered the same throughout
on_event(player_status, muted, typed) ==
    IF player_status.playback_state = "ERROR"
    THEN render_main_page(player_status, player_status)
    ELSE LET query == ExpandAlias(SplitCommand(typed), get_aliases(player_status, muted))
             render_items ==
                IF player_status.playback_state = "NO_PLAYER"
                THEN build_volume_and_mute(muted, query)
                ELSE build_main_menu(query, player_status)
         IN  IF render_items.kind = "raised" THEN render_items
             ELSE Items(Matched(render_items.items, query.command, player_status, muted))

ApplyKeywordQuery ==
    \E player_status \in PlayerStatuses, muted \in BOOLEAN, typed \in TypedCommands :
        Applied("on_event", <<player_status, muted, typed>>,
                on_event(player_status, muted, typed))

PureNext ==
    \/ ApplyGlobalVolume
    \/ ApplyGetCurrentMedia
    \/ ApplyParseMediaState
    \/ ApplyRepeatNext
    \/ ApplyRenderMainPage
    \/ ApplyKeywordQuery
    \/ Forget

SpecPure == InteractionInit /\ [][PureNext]_vars

(* =============================== claims ================================ *)
\* the step in which get_media_thumbnail ends
Leaves == mainPc # "idle" /\ mainPc' = "idle"

\* the step in which get_media_thumbnail returns from its last statement
ReturnsFromFinal == mainPc = "final" /\ mainPc' = "idle"

Attempts == {sync} \cup {bg[s] : s \in Slots}

\* C1: get_media_thumbnail never raises, and what it returns is the fallback
\* icon or a path that validates as an image when it is returned
C1_NeverRaisesReturnsValidOrFallback ==
    [][Leaves =>
          /\ ret'.kind # "raised"
          /\ ret'.kind = "cache" => validate_image(dir', FileName(media))
          /\ ret'.kind = "local" => validate_local(media.thumbnail_path)]_vars

C3_PopulationBound == Len(dir) <= EVICT_THRESHOLD + 1 + lateInserts

\* the directory holds 52 files, one of them inserted late
C3_ExceededByLateInsert == Len(dir) = EVICT_THRESHOLD + 2 /\ lateInserts = 1

\* C4: once a missing lookup is past its eviction, it has deleted exactly the
\* 35 listed files of the oldest creation times if it listed more than 50
\* (every listed file it left is newer than every file it deleted; 51 listed
\* leave 16), and nothing if it listed 50 or fewer
C4_EvictsExactlyOldest35 ==
    mainPc \in {"exists2", "sync", "spawn", "final"} /\ localKind = "cache" =>
        IF Cardinality(listing) > EVICT_THRESHOLD
        THEN /\ Cardinality(deleted) = EVICT_COUNT
             /\ deleted \subseteq listing
             /\ \A v \in deleted : \A u \in listing \ deleted : ctimes[v] < ctimes[u]
             /\ deleted \cap Names(dir) = {}
             /\ Cardinality(listing) = EVICT_THRESHOLD + 1
                   => Cardinality(listing \ deleted) = EVICT_THRESHOLD + 1 - EVICT_COUNT
        ELSE deleted = {} /\ ctimes = <<>>

\* a lookup that listed 51 files is fetching its new entry after the eviction
C4_EvictedBeforeFetch ==
    mainPc = "sync" /\ Cardinality(listing) = EVICT_THRESHOLD + 1 /\ deleted # {}

\* C5: a download attempt, synchronous or background, that returned False has
\* left no file behind: the file its wget wrote to is not in the directory
C5_FailedAttemptLeavesNoFile ==
    \A a \in Attempts :
        a.pc = "false" => ~(Exists(dir, a.name) /\ File(dir, a.name).ino = a.ino)

\* an attempt created its file, failed, and removed it
C5_FailedAfterWriting ==
    \E a \in Attempts : a.pc = "false" /\ a.ino = a.id /\ ~Exists(dir, a.name)

\* the media waiter is inside its loop for the action a
Waiting(a) == action = a /\ hPc \in {"check", "poll", "sleep"}

\* the media waiter for the action a has returned to on_event
Waited(a) == action = a /\ hPc = "render"

\* some poll of the waiter has returned
Polled == current # NoCurrentMedia

SameTitle == current.title = previous_media.title

\* C6: the waiter of NEXT goes round its loop only while no poll has seen another
\* title, leaves it by break only on another title, and otherwise returns only
\* when 3 s have passed since start_time; no poll is let through by a loop
\* condition that read an elapsed time of 3 s or more
C6_NextWaiterStopsAtChangeOrTimeout ==
    [][/\ Waiting("NEXT")' /\ Polled' => SameTitle'
       /\ Waited("NEXT")' /\ leftBy' = "break" => Polled' /\ ~SameTitle'
       /\ Waited("NEXT")' /\ (Polled' => SameTitle') =>
             leftBy' = "timeout" /\ now' - start_time' >= 30
       /\ action = "NEXT" /\ hPc = "check" /\ hPc' = "poll" => now - start_time < 30]_vars

C6_TimedOutOnSameTitle ==
    Waited("NEXT") /\ leftBy = "timeout" /\ Polled /\ SameTitle

\* the polled position is present, the one before the action too, and the
\* polled one is strictly smaller
PositionWentBack ==
    /\ current.position # {}
    /\ previous_media.position # {}
    /\ \A c \in current.position : \A p \in previous_media.position : c < p

\* C7: the waiter of PREV leaves its loop early exactly on a poll that shows
\* another title, or the same title with both positions present and the polled
\* one strictly smaller; the waiter of NEXT never leaves early on the same title
C7_PrevWaiterExitsOnTitleOrPositionBack ==
    /\ Waited("PREV") /\ leftBy = "break" => Polled /\ (~SameTitle \/ PositionWentBack)
    /\ Waiting("PREV") /\ Polled => SameTitle /\ ~PositionWentBack
    /\ Waited("NEXT") /\ leftBy = "break" => ~SameTitle

C7_LeftOnPositionBack ==
    Waited("PREV") /\ leftBy = "break" /\ SameTitle /\ PositionWentBack

\* C8: NEXT or PREV after a failed query of the media before the action sends
\* no command and ends with an error item, not with an exception
C8_NoSnapshotGivesErrorItem ==
    action \in TrackActions /\ hPc = "done" /\ toolFailed = "prequery" =>
        commands = <<>> /\ result.kind = "error"

\* C9: NEXT or PREV whose command or whose poll exits non-zero ends with the
\* error item 'Could not play next media' or 'Could not play previous media'
C9_ToolFailureGivesErrorItem ==
    action \in TrackActions /\ hPc = "done" /\ toolFailed \in {"command", "poll"} =>
        /\ action = "NEXT" => result = [kind |-> "error", title |-> "Could not play next media"]
        /\ action = "PREV" =>
              result = [kind |-> "error", title |-> "Could not play previous media"]

C9_PrevPollFailed ==
    action = "PREV" /\ hPc = "done" /\ toolFailed = "poll" /\ result.kind = "error"

\* the cyclic successor of a repeat state: Off, Playlist, Track, Off
Successor(r) ==
    IF r = "None" THEN "Playlist" ELSE IF r = "Playlist" THEN "Track" ELSE "None"

\* C10: the repeat step of a REPEAT interaction sends exactly one loop command
\* with the successor of the current state when that is Off, Playlist or Track,
\* and sends nothing and raises nothing when it is Unavailable
C10_RepeatSendsSuccessorOrNothing ==
    [][action = "REPEAT" /\ hPc = "dispatch" /\ hPc' # "dispatch" =>
          IF repeat_state \in {"None", "Playlist", "Track"}
          THEN commands' = Append(commands, <<"loop", Successor(repeat_state)>>)
          ELSE commands' = commands /\ result'.kind # "raised"]_vars

\* change_player has sent all its commands and on_event has returned
Switched ==
    action = "SELECT_PLAYER" /\ hPc = "done" /\ toolFailed = "none" /\ result = NoResult

\* C11: change_player sends pause to all players, then play, pause and
\* play-pause to the target, in this order; when all four have succeeded the
\* target is Playing and no other registered player is
C11_SwitchLeavesOnlyTargetPlaying ==
    LET dance == <<<<"pause-all">>, <<"play", target>>, <<"pause", target>>,
                   <<"play-pause", target>>>>
    IN  /\ action = "SELECT_PLAYER" /\ commands # <<>> =>
              /\ Len(commands) <= Len(dance)
              /\ commands = SubSeq(dance, 1, Len(commands))
        /\ Switched =>
              /\ commands = dance
              /\ playback[target] = "Playing"
              /\ \A p \in registered \ {target} : playback[p] # "Playing"

C11_SwitchedAmongSeveral == Switched /\ Cardinality(registered) > 1

\* C18: after a PLAYER_SELECT_MENU interaction the launcher shows one
\* SELECT_PLAYER item per registered player, carrying its identifier, and
\* nothing else
C18_MenuListsEveryPlayer ==
    action = "PLAYER_SELECT_MENU" /\ hPc = "done" /\ result = PlayersPage =>
        /\ Len(shown) = Cardinality(registered)
        /\ \A p \in registered :
              \E i \in DOMAIN shown : shown[i] = [action |-> "SELECT_PLAYER", player |-> p]

\* a MUTE or SET_VOL interaction is over, or none has begun
BetweenInteractions == hPc \in {"idle", "done"}

\* the interaction went through its branch and returned None
Completed(a) ==
    action = a /\ hPc = "done" /\ commands # <<>> /\ toolFailed = "none" /\ result = NoResult

\* C19: as long as no pactl call has failed, between interactions the flag
\* equals the sink's mute flag; a completed MUTE has flipped both, a completed
\* SET_VOL n has left both muted exactly when n is 0
C19_FlagEqualsSinkMute ==
    /\ BetweenInteractions /\ mixer_ok => is_muted = sink_muted
    /\ Completed("MUTE") /\ mixer_ok =>
          is_muted = ~flag_before /\ sink_muted = ~sink_before
    /\ Completed("SET_VOL") /\ mixer_ok =>
          (is_muted <=> vol_int = 0) /\ (sink_muted <=> vol_int = 0)

C19_UnmutedByVolume ==
    Completed("SET_VOL") /\ mixer_ok /\ flag_before /\ sink_before /\ ~is_muted /\ ~sink_muted

\* C20: a MUTE or SET_VOL interaction whose pactl call failed has left the
\* flag at the value it had before, and has not made it differ from a sink
\* state it agreed with
C20_FailedCallKeepsFlag ==
    action \in MixerActions /\ hPc = "done" /\ toolFailed = "command" =>
        /\ is_muted = flag_before
        /\ flag_before = sink_before => is_muted = sink_muted

\* C12: global_volume issues set-sink-mute 1 and nothing else when its input
\* clamped to 0..100 is 0, and otherwise set-sink-mute 0 followed by one
\* set-sink-volume with the clamped value
C12_VolumeClampedThenMuteOrSet ==
    fn = "global_volume" =>
        LET clamped == IF input < 0 THEN 0 ELSE IF input > 100 THEN 100 ELSE input
        IN  IF clamped = 0
            THEN output = <<<<"set-sink-mute", 1>>>>
            ELSE output = <<<<"set-sink-mute", 0>>, <<"set-sink-volume", clamped>>>>

C12_AboveRangeSetsHundred ==
    fn = "global_volume" /\ input > 100 /\ output[2] = <<"set-sink-volume", 100>>

RequiredFields == {"artUrl", "artist", "title", "playerName"}

\* C13: get_current_media raises the field-not-found ValueError exactly when
\* one of artUrl, artist, title, playerName is empty in the tool's output,
\* and otherwise returns a CurrentMedia in which an empty album or position
\* is the empty/absent value
C13_FailsExactlyOnMissingRequired ==
    fn = "get_current_media" =>
        LET missing == \E f \in RequiredFields : input[f] = <<>>
        IN  /\ missing <=> (output.kind = "ValueError" /\ output.message = "Could not find")
            /\ ~missing =>
                /\ output.kind = "CurrentMedia"
                /\ input.album = <<>> => output.album = <<>>
                /\ input.position = <<>> => output.position = {}

Precedence == <<"ERROR", "PAUSED", "PLAYING", "NO_PLAYER">>

PhraseOf(state) ==
    CASE state = "NO_PLAYER" -> "No players found"
      [] state = "PLAYING" -> "Playing"
      [] state = "PAUSED" -> "Paused"

\* the states whose phrase occurs in the text, and Error, which needs none
Candidates(text) ==
    {i \in DOMAIN Precedence :
        Precedence[i] = "ERROR" \/ Contains(PhraseOf(Precedence[i]), text)}

\* C14: parse_media_state returns the state of highest precedence
\* (NoPlayer > Playing > Paused > Error) among those whose phrase occurs in
\* the status text, and Error when none occurs
C14_HighestPrecedencePresent ==
    fn = "parse_media_state" =>
        /\ IndexOf(Precedence, output) + 1 \in Candidates(input)
        /\ \A i \in Candidates(input) : i <= IndexOf(Precedence, output) + 1

C14_AllThreePresent ==
    /\ fn = "parse_media_state"
    /\ \A ph \in {"No players found", "Playing", "Paused"} : Contains(ph, input)
    /\ input[1] = "Paused"
    /\ output = "NO_PLAYER"

\* C15: RepeatState.next maps Off to Playlist, Playlist to Track and Track
\* to Off, so that from an available state three applications return the
\* starting state and one or two do not; it never yields Unavailable from an
\* available state and maps Unavailable to itself
C15_NextIsCycleOfPeriodThree ==
    fn = "next" =>
        LET r == input[1]
            n == input[2]
        IN  /\ r = "Unavailable" => output = "Unavailable"
            /\ r # "Unavailable" =>
                /\ output # "Unavailable"
                /\ output = r <=> n = 3
            /\ n = 1 =>
                /\ r = "None" => output = "Playlist"
                /\ r = "Playlist" => output = "Track"
                /\ r = "Track" => output = "None"

C15_ThirdApplicationReturns ==
    fn = "next" /\ input = <<"Track", 3>> /\ output = "Track"

\* the step in which a lookup whose fast fetch failed starts its thread
Spawns == mainPc = "spawn" /\ mainPc' = "final"

\* C16: a lookup whose fast fetch failed starts a thread for its file whether
\* or not a thread for the same file is in flight, and leaves the threads in
\* flight as they are
C16_SpawnIgnoresThreadsInFlight ==
    [][Spawns =>
          /\ bg'[misses].pc = "spawned"
          /\ bg'[misses].name = FileName(media)
          /\ \A s \in Slots \ {misses} : bg'[s] = bg[s]]_vars

\* two threads started by two lookups of the same title are both writing the
\* same file
C16_TwoThreadsWriteSameFile ==
    /\ bg[1].pc = "running"
    /\ bg[2].pc = "running"
    /\ bg[1].name = bg[2].name
    /\ bg[1].id # bg[2].id

\* the control items of DEFAULT_MENU_ORDER for a status: all but the current
\* media, Shuffle and Repeat left out when Unavailable
RECURSIVE ControlItems(_, _)
ControlItems(order, status) ==
    IF order = <<>> THEN <<>>
    ELSE LET item == Head(order)
             omitted ==
                \/ item = "CURRENT_MEDIA"
                \/ item = "SHUFFLE" /\ status.shuffle_state = "Unavailable"
                \/ item = "REPEAT" /\ status.repeat_state = "Unavailable"
         IN  (IF omitted THEN <<>> ELSE <<item>>) \o ControlItems(Tail(order), status)

\* C17: with a player Playing or Paused (and the same status answered
\* throughout) the main page rendered for a keyword event without argument
\* does not raise and lists the current media once, first, then the control
\* items in DEFAULT_MENU_ORDER
C17_MainPageListsMediaThenControls ==
    /\ fn = "render_main_page"
    /\ input[1].playback_state \in {"PLAYING", "PAUSED"}
    /\ input[2] = input[1]
    => /\ output.kind = "items"
       /\ output.items = <<"CURRENT_MEDIA">> \o ControlItems(DEFAULT_MENU_ORDER, input[1])

\* the steps of a lookup that finds a file for its key: the exists() check
\* that succeeds, and the return that follows it
FindsFile == mainPc = "idle" /\ mainPc' = "hit"

ReturnsFromHit == mainPc = "hit" /\ mainPc' = "idle"

C22_NoPlayerQueryListsMatchingVolumeAndMute ==
    fn = "on_event" /\ input[1].playback_state = "NO_PLAYER" =>
        LET command ==
                ExpandAlias(SplitCommand(input[3]), get_aliases(input[1], input[2])).command
        IN  /\ output.kind = "items"
            /\ output.items = Matched(<<"VOLUME", "MUTE">>, command, input[1], input[2])

====
